---- MODULE Spec2Model ----
(***************************************************************************)
(* Model of WeChatImageScraper (src/Signals and System/main.py): one run   *)
(* of the pipeline setup -> load -> scroll -> extract -> download ->       *)
(* (screenshot fallback) -> create_pdf, with the browser, the web and the  *)
(* file system as the environment.  Every call that can raise in the code  *)
(* has an outcome chosen by the environment.                               *)
(***************************************************************************)
EXTENDS Integers, Sequences, FiniteSets, TLC

\* ---------------------------------------------------------------- bounds
MaxUrls == 3        \* candidate URLs the page can yield
MaxHeight == 2      \* distinct document.body.scrollHeight readings
MaxBands == 2       \* bands of the content container in the fallback
MaxInputs == 3      \* length of a list given to create_pdf on its own
MaxRaw == 3         \* entries of image_data the in-page scan returns

\* ------------------------------------------------------ program constants
MIN_DIM == 100            \* smallest accepted decoded width / height
ScrollCap == 5            \* range(5) of the exhaustion phase
viewport_height == 1000   \* height of one screenshot band
WindowWidth == 800        \* window of the headless browser the options start
WindowHeight == 600

VARIABLES
  pc,                 \* position of the run
  driver,             \* self.driver: "none" | "open" | "closed" (after quit)
  ret,                \* what run() returns: "unset" | "null" | "pdf"
  exc,                \* an exception is propagating out of run()
  last_height,        \* scroll_to_load_images: last_height
  scroll_iter,        \* scroll_to_load_images: iterations of the range(5) loop started
  scroll_err,         \* history: the scroll routine raised
  image_urls,         \* result of extract_images_with_selenium
  extract_err,        \* history: the extraction raised
  extract_calls,      \* history: calls of extract_images_with_selenium
  i,                  \* download_images: candidates processed so far
  downloaded_images,  \* download_images: downloaded_images
  disk,               \* files of output_dir: path -> content
  fallback_calls,     \* history: calls of capture_article_screenshots
  fallback_at,        \* history: value of i when the fallback was called
  fallback_out,       \* history: list returned by capture_article_screenshots
  total_height,       \* capture_article_screenshots: total_height
  band,               \* capture_article_screenshots: i // viewport_height
  screenshot_paths,   \* capture_article_screenshots: screenshot_paths
  persisted_at_err,   \* history: slices persisted when the capture raised, -1 if it did not
  image_paths,        \* argument of create_pdf
  converted_images,   \* create_pdf: converted_images
  conv_idx,           \* create_pdf: images of image_paths processed so far
  conv_failed,        \* history: positions of image_paths whose conversion raised
  write_err,          \* history: the open / convert / write of the PDF raised
  temps_made,         \* history: transient copies written by create_pdf
  pdf_file,           \* the file at pdf_path
  pdf_ret,            \* what create_pdf returned: "unset" | "null" | "pdf"
  failed_at,          \* history: "setup" / "load" when that stage reported failure, else "none"
  kept_from,          \* history: for each downloaded image, the position of its candidate
  shot_offsets,       \* history: the scroll offset each screenshot was taken at
  page_url,           \* self.url, as a sequence of characters
  image_data,         \* extract_images_with_selenium: the urls of image_data
  scan_idx,           \* extract_images_with_selenium: entries of image_data processed
  normalized          \* history: the url of each processed entry after lines 209-218

runVars == <<pc, driver, ret, exc>>
scrollVars == <<last_height, scroll_iter, scroll_err>>
extractVars == <<image_urls, extract_err, extract_calls>>
downloadVars == <<i, downloaded_images>>
captureVars == <<fallback_calls, fallback_at, fallback_out, total_height, band,
                 screenshot_paths, persisted_at_err>>
pdfVars == <<image_paths, converted_images, conv_idx, conv_failed, write_err,
             temps_made, pdf_file, pdf_ret>>
histVars == <<failed_at, kept_from, shot_offsets>>
scanVars == <<page_url, image_data, scan_idx, normalized>>
auxVars == <<histVars, scanVars>>
vars == <<runVars, scrollVars, extractVars, downloadVars, captureVars, pdfVars, disk, auxVars>>

\* ------------------------------------------------------------ file system
\* A path of output_dir: image_NNN.jpg, screenshot_NNN.jpg, and the same with
\* '.jpg' replaced by '_temp.jpg' `temp` times.
ImagePath(n) == [kind |-> "image", n |-> n, temp |-> 0]
ScreenshotPath(n) == [kind |-> "screenshot", n |-> n, temp |-> 0]
\* variant of TempPath: the replacement finds nothing to replace
TempPathSame(p) == p

\* img_path.replace('.jpg', '_temp.jpg')
TempPath(p) == [p EXCEPT !.temp = @ + 1]
\* '_temp.jpg' in temp_img
IsTemp(p) == p.temp >= 1
\* f"{n:03d}": the decimal digits of n, padded with zeros to three
RECURSIVE Digits(_)
Digits(n) == IF n < 10 THEN <<n>> ELSE Append(Digits(n \div 10), n % 10)
Pad3(n) ==
  IF n < 10 THEN <<0, 0>> \o Digits(n) ELSE IF n < 100 THEN <<0>> \o Digits(n) ELSE Digits(n)
\* the file name of a path: lines 269, 328 and 367
FileName(p) ==
  <<p.kind, "_">> \o Pad3(p.n) \o [k \in 1..p.temp |-> "_temp"] \o <<".jpg">>

\* content of an image file: decoded size, and the path it was first stored at
Content(w, h, p) == [w |-> w, h |-> h, of |-> p]
Exists(p) == p \in DOMAIN disk
\* img.save(path): creates or overwrites
Save(d, p, c) == (p :> c) @@ d
\* os.remove(path) for each path of ps that exists
Remove(d, ps) == [p \in (DOMAIN d) \ ps |-> d[p]]

NoFile == [exists |-> FALSE, complete |-> FALSE, pages |-> <<>>]
\* open(pdf_path, "wb") creates / truncates the file before anything is written
Truncated == [exists |-> TRUE, complete |-> FALSE, pages |-> <<>>]
Document(pages) == [exists |-> TRUE, complete |-> TRUE, pages |-> pages]

Range(s) == {s[k] : k \in DOMAIN s}

\* ------------------------------------------------------------ environment
Heights == 1..MaxHeight
Urls == 1..MaxUrls
\* duplicate-free lists of candidate URLs (line 221 keeps image_urls duplicate-free)
CandidateLists ==
  UNION {{s \in [1..n -> Urls] : \A a, b \in 1..n : a # b => s[a] # s[b]} : n \in 0..MaxUrls}
Dims == {MIN_DIM - 1, MIN_DIM}
\* what requests.get(url) and Image.open(content) give for one candidate
Responses ==
  {[http |-> FALSE, decodes |-> FALSE, w |-> 0, h |-> 0],
   [http |-> TRUE, decodes |-> FALSE, w |-> 0, h |-> 0]}
  \cup {[http |-> TRUE, decodes |-> TRUE, w |-> w, h |-> h] : w, h \in Dims}
\* main_element.size['height']
TotalHeights == {t \in 0..(MaxBands * viewport_height) : t % viewport_height \in {0, 1}}

Init ==
  /\ pc = "run"
  /\ driver = "none"
  /\ ret = "unset"
  /\ exc = FALSE
  /\ last_height = 0
  /\ scroll_iter = 0
  /\ scroll_err = FALSE
  /\ image_urls = <<>>
  /\ extract_err = FALSE
  /\ extract_calls = 0
  /\ i = 0
  /\ downloaded_images = <<>>
  /\ disk = <<>>
  /\ fallback_calls = 0
  /\ fallback_at = 0
  /\ fallback_out = <<>>
  /\ total_height = 0
  /\ band = 0
  /\ screenshot_paths = <<>>
  /\ persisted_at_err = -1
  /\ image_paths = <<>>
  /\ converted_images = <<>>
  /\ conv_idx = 0
  /\ conv_failed = {}
  /\ write_err = FALSE
  /\ temps_made = {}
  /\ pdf_file = NoFile
  /\ pdf_ret = "unset"
  /\ failed_at = "none"
  /\ kept_from = <<>>
  /\ shot_offsets = <<>>
  /\ page_url = <<>>
  /\ image_data = <<>>
  /\ scan_idx = 0
  /\ normalized = <<>>

\* ------------------------------------------------------------------ run()
\* run() leaves the try block with a value: the finally block runs next
ReturnFromTry(v) ==
  /\ ret' = v
  /\ pc' = "finally"

\* setup_webdriver succeeds: self.driver is the new session
SetupWebdriverOk ==
  /\ pc = "run"
  /\ driver' = "open"
  /\ pc' = "load_article"
  /\ UNCHANGED <<auxVars, ret, exc, scrollVars, extractVars, downloadVars, captureVars,
                 pdfVars, disk>>

\* setup_webdriver raises before self.driver is assigned: run returns None
SetupWebdriverFail ==
  /\ pc = "run"
  /\ failed_at' = "setup"
  /\ ret' = "null"
  /\ pc' = "done"
  /\ UNCHANGED <<kept_from, shot_offsets, scanVars, driver, exc, scrollVars, extractVars,
                 downloadVars, captureVars, pdfVars, disk>>

\* load_article: driver.get and the wait for <body> succeed
LoadArticleOk ==
  /\ pc = "load_article"
  /\ pc' = "scroll_start"
  /\ UNCHANGED <<auxVars, driver, ret, exc, scrollVars, extractVars, downloadVars, captureVars,
                 pdfVars, disk>>

\* variant of LoadArticleFail: the failed load returns from run() the way the
\* failed setup does, without passing the finally block
LoadArticleFailNoCleanup ==
  /\ pc = "load_article"
  /\ failed_at' = "load"
  /\ ret' = "null"
  /\ pc' = "done"
  /\ UNCHANGED <<kept_from, shot_offsets, scanVars, driver, exc, scrollVars, extractVars,
                 downloadVars, captureVars, pdfVars, disk>>

\* variant of LoadArticleFail: run() does not test what load_article returned
LoadArticleFailContinues ==
  /\ pc = "load_article"
  /\ failed_at' = "load"
  /\ pc' = "extract"
  /\ UNCHANGED <<kept_from, shot_offsets, scanVars, driver, ret, exc, scrollVars,
                 extractVars, downloadVars, captureVars, pdfVars, disk>>

\* load_article: driver.get or the wait raises; load_article returns False
LoadArticleFail ==
  /\ pc = "load_article"
  /\ failed_at' = "load"
  /\ ReturnFromTry("null")
  /\ UNCHANGED <<kept_from, shot_offsets, scanVars, driver, exc, scrollVars, extractVars,
                 downloadVars, captureVars, pdfVars, disk>>

\* ------------------------------------------------- scroll_to_load_images()
\* load_article calls scroll_to_load_images() as a statement and returns True
\* after it, whatever it returned; the locals of the scroll routine end with it
ScrollReturns(ok) ==
  /\ pc' = "extract"
  /\ last_height' = 0
  /\ scroll_iter' = 0

ScrollStart ==
  /\ pc = "scroll_start"
  /\ \E h \in Heights : last_height' = h
  /\ scroll_iter' = 0
  /\ pc' = "scroll_loop"
  /\ UNCHANGED <<auxVars, driver, ret, exc, scroll_err, extractVars, downloadVars, captureVars,
                 pdfVars, disk>>

\* variant of ScrollIter: an unchanged height does not end the loop
ScrollIterNoBreak ==
  /\ pc = "scroll_loop"
  /\ scroll_iter < ScrollCap
  /\ scroll_iter' = scroll_iter + 1
  /\ \E new_height \in Heights :
       IF new_height = last_height
       THEN /\ pc' = IF scroll_iter + 1 = ScrollCap THEN "scroll_sweep" ELSE "scroll_loop"
            /\ UNCHANGED last_height
       ELSE /\ last_height' = new_height
            /\ pc' = IF scroll_iter + 1 = ScrollCap THEN "scroll_sweep" ELSE "scroll_loop"
  /\ UNCHANGED <<auxVars, driver, ret, exc, scroll_err, extractVars, downloadVars, captureVars,
                 pdfVars, disk>>

\* one iteration of the range(5) loop, and the exit from the loop after it
ScrollIter ==
  /\ pc = "scroll_loop"
  /\ scroll_iter < ScrollCap
  /\ scroll_iter' = scroll_iter + 1
  /\ \E new_height \in Heights :
       IF new_height = last_height
       THEN /\ pc' = "scroll_sweep"
            /\ UNCHANGED last_height
       ELSE /\ last_height' = new_height
            /\ pc' = IF scroll_iter + 1 = ScrollCap THEN "scroll_sweep" ELSE "scroll_loop"
  /\ UNCHANGED <<auxVars, driver, ret, exc, scroll_err, extractVars, downloadVars, captureVars,
                 pdfVars, disk>>

\* back to the top and the ten-step sweep
ScrollSweep ==
  /\ pc = "scroll_sweep"
  /\ ScrollReturns(TRUE)
  /\ UNCHANGED <<auxVars, driver, ret, exc, scroll_err, extractVars, downloadVars, captureVars,
                 pdfVars, disk>>

\* an execute_script of either phase raises: logged, scroll returns False
ScrollError ==
  /\ pc \in {"scroll_start", "scroll_loop", "scroll_sweep"}
  /\ scroll_err' = TRUE
  /\ ScrollReturns(FALSE)
  /\ UNCHANGED <<auxVars, driver, ret, exc, extractVars, downloadVars,
                 captureVars, pdfVars, disk>>

\* ------------------------------------------ extract_images_with_selenium()
ExtractOk ==
  /\ pc = "extract"
  /\ \E urls \in CandidateLists : image_urls' = urls
  /\ extract_calls' = extract_calls + 1
  /\ pc' = "download"
  /\ UNCHANGED <<auxVars, driver, ret, exc, scrollVars, extract_err, downloadVars, captureVars,
                 pdfVars, disk>>

\* execute_script raises: logged, the result is []
ExtractError ==
  /\ pc = "extract"
  /\ image_urls' = <<>>
  /\ extract_err' = TRUE
  /\ extract_calls' = extract_calls + 1
  /\ pc' = "download"
  /\ UNCHANGED <<auxVars, driver, ret, exc, scrollVars, downloadVars, captureVars, pdfVars, disk>>

\* ------------------------------- urls, as sequences of characters
StartsWith(s, pre) == Len(s) >= Len(pre) /\ SubSeq(s, 1, Len(pre)) = pre
From(s, k) == SubSeq(s, k, Len(s))
\* position of the first character of s that is in cs, 0 if there is none
IndexOf(s, cs) ==
  IF \E k \in DOMAIN s : s[k] \in cs
  THEN CHOOSE k \in DOMAIN s : s[k] \in cs /\ \A j \in 1..(k - 1) : s[j] \notin cs
  ELSE 0
\* position of the last "/" of s, 0 if there is none
LastSlash(s) ==
  IF \E k \in DOMAIN s : s[k] = "/"
  THEN CHOOSE k \in DOMAIN s : s[k] = "/" /\ \A j \in (k + 1)..Len(s) : s[j] # "/"
  ELSE 0

\* urlparse(u).scheme: the text before the first ':' when it is a scheme name
UrlScheme(u) ==
  LET c == IndexOf(u, {":"})
  IN IF c > 1 /\ \A k \in 1..(c - 1) : u[k] \notin {"/", "?", "#"}
     THEN SubSeq(u, 1, c - 1) ELSE <<>>
AfterScheme(u) == IF UrlScheme(u) = <<>> THEN u ELSE From(u, Len(UrlScheme(u)) + 2)
\* what follows '//' up to the next '/', '?' or '#'
AfterNetloc(u) ==
  LET r == AfterScheme(u)
      rest == From(r, 3)
      e == IndexOf(rest, {"/", "?", "#"})
  IN IF ~StartsWith(r, <<"/", "/">>) THEN r
     ELSE IF e = 0 THEN <<>> ELSE From(rest, e)
\* urlparse(u).netloc
UrlNetloc(u) ==
  LET r == AfterScheme(u)
  IN IF StartsWith(r, <<"/", "/">>)
     THEN SubSeq(r, 3, Len(r) - Len(AfterNetloc(u))) ELSE <<>>
\* urlparse(u).path
UrlPath(u) ==
  LET r == AfterNetloc(u)
      e == IndexOf(r, {"?", "#"})
  IN IF e = 0 THEN r ELSE SubSeq(r, 1, e - 1)
\* lines 214-215: f"{parsed_url.scheme}://{parsed_url.netloc}"
Origin(u) == UrlScheme(u) \o <<":", "/", "/">> \o UrlNetloc(u)

\* urllib.parse.urljoin(base, url), for references without dot segments that
\* are not a bare query or fragment: an empty reference gives the base, a
\* reference of another scheme is returned as it is, any other is resolved
\* against the base (its query and last path segment dropped)
Urljoin(base, url) ==
  IF url = <<>> THEN base
  ELSE IF UrlScheme(url) # <<>> /\ UrlScheme(url) # UrlScheme(base) THEN url
  ELSE LET rel == AfterScheme(url)
       IN IF StartsWith(rel, <<"/", "/">>) THEN UrlScheme(base) \o <<":">> \o rel
          ELSE IF StartsWith(rel, <<"/">>) THEN Origin(base) \o rel
          ELSE IF UrlPath(base) = <<>> THEN Origin(base) \o <<"/">> \o rel
          ELSE Origin(base) \o SubSeq(UrlPath(base), 1, LastSlash(UrlPath(base))) \o rel

S_http == <<"h", "t", "t", "p", ":", "/", "/">>
S_https == <<"h", "t", "t", "p", "s", ":", "/", "/">>
S_data == <<"d", "a", "t", "a", ":">>

\* line 206: url.startswith('data:')
IsInline(url) == StartsWith(url, S_data)
\* line 212: url.startswith('http://') or url.startswith('https://')
IsAbsolute(url) == StartsWith(url, S_http) \/ StartsWith(url, S_https)

\* variant of Normalize: the origin of a root-relative url is built without the scheme
NormalizeNoScheme(page, url) ==
  IF StartsWith(url, <<"/", "/">>) THEN <<"h", "t", "t", "p", "s", ":">> \o url
  ELSE IF ~IsAbsolute(url)
       THEN IF StartsWith(url, <<"/">>) THEN UrlNetloc(page) \o url
            ELSE Urljoin(page, url)
       ELSE url

\* lines 209-218: the url of an entry made absolute against the page url
Normalize(page, url) ==
  IF StartsWith(url, <<"/", "/">>) THEN <<"h", "t", "t", "p", "s", ":">> \o url
  ELSE IF ~IsAbsolute(url)
       THEN IF StartsWith(url, <<"/">>) THEN Origin(page) \o url
            ELSE Urljoin(page, url)
       ELSE url

\* variant of AlreadyListed: only the url added last is compared
AlreadyListedLast(urls, url) == urls # <<>> /\ urls[Len(urls)] = url

\* line 221: url in image_urls
AlreadyListed(urls, url) == url \in Range(urls)

\* the pages the scraper is given, and the urls the in-page scan can return
PageUrls ==
  {S_https \o <<"h", "/", "p">>,
   S_http \o <<"h", "/", "d", "/", "p", "?", "q">>}
RawUrls ==
  {S_data \o <<"x">>,
   <<"/", "/", "h", "/", "a">>,
   S_https \o <<"h", "/", "a">>,
   S_http \o <<"h", "/", "a">>,
   S_http \o <<"h", "/", "d", "/", "a">>,
   <<"/", "a">>,
   <<"a">>,
   <<"b", "l", "o", "b", ":", "x">>,
   <<>>}
RawLists == UNION {[1..n -> RawUrls] : n \in 0..MaxRaw}

\* lines 202-222: one pass of the loop over image_data
ScanEntry ==
  /\ pc = "scan"
  /\ scan_idx < Len(image_data)
  /\ scan_idx' = scan_idx + 1
  /\ LET raw == image_data[scan_idx + 1]
         url == Normalize(page_url, raw)
     IN IF IsInline(raw)
        THEN /\ normalized' = Append(normalized, <<>>)
             /\ UNCHANGED image_urls
        ELSE /\ normalized' = Append(normalized, url)
             /\ image_urls' = IF url # <<>> /\ ~AlreadyListed(image_urls, url)
                              THEN Append(image_urls, url) ELSE image_urls
  /\ UNCHANGED <<runVars, scrollVars, extract_err, extract_calls, downloadVars, captureVars,
                 pdfVars, disk, histVars, page_url, image_data>>

\* lines 224-225: the loop is over, image_urls is returned
ScanReturn ==
  /\ pc = "scan"
  /\ scan_idx = Len(image_data)
  /\ pc' = "scanned"
  /\ extract_calls' = extract_calls + 1
  /\ UNCHANGED <<driver, ret, exc, scrollVars, image_urls, extract_err, downloadVars,
                 captureVars, pdfVars, disk, auxVars>>

\* -------------------------------------------------------- download_images()
\* variant of TooSmall: `and` in place of `or`
TooSmallBoth(w, h) == w < MIN_DIM /\ h < MIN_DIM

\* line 264: the decoded image is too small to keep
TooSmall(w, h) == w < MIN_DIM \/ h < MIN_DIM

\* variant of NeedsFallback: the test of self.driver negated
NeedsFallbackNoDriver == downloaded_images = <<>> /\ driver = "none"

\* variant of NeedsFallback: the emptiness of downloaded_images is not tested
NeedsFallbackAlways == driver # "none"

\* line 289: nothing was downloaded and there is a browser session
NeedsFallback == downloaded_images = <<>> /\ driver # "none"

\* download_images returns paths to run(), which binds image_paths
ReturnFromDownload(paths) ==
  /\ image_paths' = paths
  /\ pc' = "run_check"

\* lines 241-242: no candidate, return [] at once
DownloadEmpty ==
  /\ pc = "download"
  /\ image_urls = <<>>
  /\ ReturnFromDownload(<<>>)
  /\ UNCHANGED <<auxVars, driver, ret, exc, scrollVars, extractVars, downloadVars, captureVars,
                 converted_images, conv_idx, conv_failed, write_err, temps_made, pdf_file,
                 pdf_ret, disk>>

\* variant of FileIndex: the next number not yet used by a kept image
FileIndexSequential(idx, kept) == Len(kept) + 1

\* line 269: the number in the file name, from enumerate's 0-based index
FileIndex(idx, kept) == idx + 1

\* variant of Keep: the new path is put at the head of the list
KeepAtHead(list, x) == <<x>> \o list

\* line 277: downloaded_images.append(filepath)
Keep(list, x) == Append(list, x)

\* variant of DownloadCandidate: a skipped candidate ends the loop (break for continue)
DownloadCandidateBreak ==
  /\ pc = "download"
  /\ i < Len(image_urls)
  /\ \E r \in Responses, saved \in BOOLEAN :
       IF r.http /\ r.decodes /\ ~TooSmall(r.w, r.h) /\ saved
       THEN LET filepath == ImagePath(FileIndex(i, downloaded_images))
            IN /\ disk' = Save(disk, filepath, Content(r.w, r.h, filepath))
               /\ downloaded_images' = Keep(downloaded_images, filepath)
               /\ kept_from' = Keep(kept_from, i + 1)
               /\ i' = i + 1
       ELSE /\ i' = Len(image_urls)
            /\ UNCHANGED <<disk, downloaded_images, kept_from>>
  /\ UNCHANGED <<failed_at, shot_offsets, scanVars, runVars, scrollVars, extractVars,
                 captureVars, pdfVars>>

\* one pass of the for loop: candidate i+1 is fetched, decoded, filtered, saved
DownloadCandidate ==
  /\ pc = "download"
  /\ i < Len(image_urls)
  /\ i' = i + 1
  /\ \E r \in Responses, saved \in BOOLEAN :
       IF r.http /\ r.decodes /\ ~TooSmall(r.w, r.h) /\ saved
       THEN LET filepath == ImagePath(FileIndex(i, downloaded_images))
            IN /\ disk' = Save(disk, filepath, Content(r.w, r.h, filepath))
               /\ downloaded_images' = Keep(downloaded_images, filepath)
               /\ kept_from' = Keep(kept_from, i + 1)
       ELSE UNCHANGED <<disk, downloaded_images, kept_from>>
  /\ UNCHANGED <<failed_at, shot_offsets, scanVars, runVars, scrollVars, extractVars,
                 captureVars, pdfVars>>

\* lines 289-292: after the loop, nothing downloaded: call the fallback
DownloadFallback ==
  /\ pc = "download"
  /\ image_urls # <<>>
  /\ i = Len(image_urls)
  /\ NeedsFallback
  /\ fallback_calls' = fallback_calls + 1
  /\ fallback_at' = i
  /\ screenshot_paths' = <<>>
  /\ pc' = "capture"
  /\ UNCHANGED <<auxVars, driver, ret, exc, scrollVars, extractVars, downloadVars, fallback_out,
                 total_height, band, persisted_at_err, pdfVars, disk>>

\* line 296: after the loop, something was downloaded
DownloadReturn ==
  /\ pc = "download"
  /\ image_urls # <<>>
  /\ i = Len(image_urls)
  /\ ~NeedsFallback
  /\ ReturnFromDownload(downloaded_images)
  /\ UNCHANGED <<auxVars, driver, ret, exc, scrollVars, extractVars, downloadVars, captureVars,
                 converted_images, conv_idx, conv_failed, write_err, temps_made, pdf_file,
                 pdf_ret, disk>>

\* ------------------------------------------- capture_article_screenshots()
\* what capture_article_screenshots hands back when an exception was caught
\* after `paths` were collected (line 338)
OnCaptureError(paths) == <<>>

\* capture_article_screenshots returns paths; download_images assigns them to
\* downloaded_images (line 292) and returns them (line 296)
CaptureReturns(paths) ==
  /\ fallback_out' = paths
  /\ downloaded_images' = paths
  /\ ReturnFromDownload(paths)

\* lines 304-315: the content element is found and measured
CaptureLocate ==
  /\ pc = "capture"
  /\ \E t \in TotalHeights : total_height' = t
  /\ band' = 0
  /\ pc' = "capture_loop"
  /\ UNCHANGED <<auxVars, driver, ret, exc, scrollVars, extractVars, downloadVars, fallback_calls,
                 fallback_at, fallback_out, screenshot_paths, persisted_at_err, pdfVars, disk>>

\* variant of MoreBands: only the bands that fit whole (total_height // viewport_height)
MoreBandsWhole == (band + 1) * viewport_height <= total_height

\* line 318: range(0, total_height, viewport_height) has an offset left after
\* `band` passes
MoreBands == band * viewport_height < total_height

\* one pass of the loop over range(0, total_height, viewport_height): scroll to
\* the offset, take the screenshot, save it under the index offset // viewport_height
CaptureBand ==
  /\ pc = "capture_loop"
  /\ MoreBands
  /\ LET offset == band * viewport_height
         filepath == ScreenshotPath(offset \div viewport_height)
     IN /\ shot_offsets' = Append(shot_offsets, offset)
        /\ disk' = Save(disk, filepath, Content(WindowWidth, WindowHeight, filepath))
        /\ screenshot_paths' = Append(screenshot_paths, filepath)
  /\ band' = band + 1
  /\ UNCHANGED <<failed_at, kept_from, scanVars, runVars, scrollVars, extractVars,
                 downloadVars, fallback_calls, fallback_at, fallback_out, total_height,
                 persisted_at_err, pdfVars>>

\* line 334: the loop is over
CaptureReturn ==
  /\ pc = "capture_loop"
  /\ ~MoreBands
  /\ CaptureReturns(screenshot_paths)
  /\ UNCHANGED <<auxVars, driver, ret, exc, scrollVars, extractVars, i, fallback_calls, fallback_at,
                 total_height, band, screenshot_paths, persisted_at_err, converted_images,
                 conv_idx, conv_failed, write_err, temps_made, pdf_file, pdf_ret, disk>>

\* lines 336-338: locating the element, scrolling, the screenshot or the save raises
CaptureError ==
  /\ \/ pc = "capture"
     \/ pc = "capture_loop" /\ MoreBands
  /\ persisted_at_err' = Len(screenshot_paths)
  /\ CaptureReturns(OnCaptureError(screenshot_paths))
  /\ UNCHANGED <<auxVars, driver, ret, exc, scrollVars, extractVars, i, fallback_calls, fallback_at,
                 total_height, band, screenshot_paths, converted_images, conv_idx,
                 conv_failed, write_err, temps_made, pdf_file, pdf_ret, disk>>

\* ------------------------------------------------------ run(), lines 414-421
RunNoImages ==
  /\ pc = "run_check"
  /\ image_paths = <<>>
  /\ ReturnFromTry("null")
  /\ UNCHANGED <<auxVars, driver, exc, scrollVars, extractVars, downloadVars, captureVars,
                 pdfVars, disk>>

RunCreatePdf ==
  /\ pc = "run_check"
  /\ image_paths # <<>>
  /\ pc' = "create_pdf"
  /\ UNCHANGED <<auxVars, driver, ret, exc, scrollVars, extractVars, downloadVars, captureVars,
                 pdfVars, disk>>

\* -------------------------------------------------------------- create_pdf()
\* create_pdf returns v to its caller
CreatePdfReturns(v) ==
  /\ pdf_ret' = v
  /\ pc' = "pdf_returned"

\* variant of Collect: the copy is put at the head of the list
CollectAtHead(converted, temp_path) == <<temp_path>> \o converted

\* line 369: converted_images.append(temp_path)
Collect(converted, temp_path) == Append(converted, temp_path)

\* the pages img2pdf.convert makes of the files listed: one page per entry
Pages(files) == [k \in 1..Len(files) |-> disk[files[k]]]

\* lines 350-352
CreatePdfEmpty ==
  /\ pc = "create_pdf"
  /\ image_paths = <<>>
  /\ CreatePdfReturns("null")
  /\ UNCHANGED <<auxVars, driver, ret, exc, scrollVars, extractVars, downloadVars, captureVars,
                 image_paths, converted_images, conv_idx, conv_failed, write_err, temps_made,
                 pdf_file, disk>>

\* lines 359-372: one pass of the conversion loop
CreatePdfConvert ==
  /\ pc = "create_pdf"
  /\ conv_idx < Len(image_paths)
  /\ conv_idx' = conv_idx + 1
  /\ LET img_path == image_paths[conv_idx + 1]
         temp_path == TempPath(img_path)
     IN \E ok \in BOOLEAN :
          IF ok /\ Exists(img_path)
          THEN /\ disk' = Save(disk, temp_path, disk[img_path])
               /\ converted_images' = Collect(converted_images, temp_path)
               /\ temps_made' = temps_made \cup {temp_path}
               /\ UNCHANGED conv_failed
          ELSE /\ conv_failed' = conv_failed \cup {conv_idx + 1}
               /\ UNCHANGED <<disk, converted_images, temps_made>>
  /\ UNCHANGED <<auxVars, runVars, scrollVars, extractVars, downloadVars, captureVars, image_paths,
                 write_err, pdf_file, pdf_ret>>

\* lines 375-389: open the PDF for writing, convert, write, clean up, return.
\* open() may raise before the file exists; img2pdf.convert or f.write may
\* raise after open() truncated it (the except branch removes nothing); when
\* every conversion failed the list given to img2pdf.convert is empty, and the
\* library either raises or makes a document of no page, by its version.
CreatePdfWrite ==
  /\ pc = "create_pdf"
  /\ image_paths # <<>>
  /\ conv_idx = Len(image_paths)
  /\ \E outcome \in {"open_raises", "convert_raises", "written"} :
       CASE outcome = "open_raises" ->
              /\ write_err' = TRUE
              /\ CreatePdfReturns("null")
              /\ UNCHANGED <<pdf_file, disk>>
         [] outcome = "convert_raises" ->
              /\ write_err' = TRUE
              /\ pdf_file' = Truncated
              /\ CreatePdfReturns("null")
              /\ UNCHANGED disk
         [] outcome = "written" ->
              /\ pdf_file' = Document(Pages(converted_images))
              /\ disk' = Remove(disk, {t \in Range(converted_images) : IsTemp(t)})
              /\ CreatePdfReturns("pdf")
              /\ UNCHANGED write_err
  /\ UNCHANGED <<auxVars, driver, ret, exc, scrollVars, extractVars, downloadVars, captureVars,
                 image_paths, converted_images, conv_idx, conv_failed, temps_made>>

\* line 421
RunReturnPdf ==
  /\ pc = "pdf_returned"
  /\ ReturnFromTry(pdf_ret)
  /\ UNCHANGED <<auxVars, driver, exc, scrollVars, extractVars, downloadVars, captureVars,
                 pdfVars, disk>>

\* ------------------------------------------------------ run(), try / finally
InTry == {"load_article", "scroll_start", "scroll_loop", "scroll_sweep", "extract",
          "download", "capture", "capture_loop", "run_check", "create_pdf", "pdf_returned"}

\* an exception no handler of the stages catches (a BaseException such as
\* KeyboardInterrupt) leaves the try block
Interrupt ==
  /\ pc \in InTry
  /\ exc' = TRUE
  /\ pc' = "finally"
  /\ UNCHANGED <<auxVars, driver, ret, scrollVars, extractVars, downloadVars, captureVars,
                 pdfVars, disk>>

\* lines 423-427: quit the driver, then return or re-raise
Finally ==
  /\ pc = "finally"
  /\ driver' = IF driver # "none" THEN "closed" ELSE driver
  /\ pc' = IF exc THEN "raised" ELSE "done"
  /\ UNCHANGED <<auxVars, ret, exc, scrollVars, extractVars, downloadVars, captureVars,
                 pdfVars, disk>>

Next ==
  \/ SetupWebdriverOk \/ SetupWebdriverFail
  \/ LoadArticleOk \/ LoadArticleFail
  \/ ScrollStart \/ ScrollIter \/ ScrollSweep \/ ScrollError
  \/ ExtractOk \/ ExtractError
  \/ DownloadEmpty \/ DownloadCandidate \/ DownloadFallback \/ DownloadReturn
  \/ CaptureLocate \/ CaptureBand \/ CaptureReturn \/ CaptureError
  \/ RunNoImages \/ RunCreatePdf
  \/ CreatePdfConvert \/ CreatePdfWrite \/ RunReturnPdf
  \/ Interrupt \/ Finally

Spec == Init /\ [][Next]_vars

\* ------------------------------------------- create_pdf called on its own
InputPaths == {ImagePath(1), ImagePath(2), ScreenshotPath(0)}
InputLists == UNION {[1..n -> InputPaths] : n \in 0..MaxInputs}

InitAssemble ==
  /\ pc = "create_pdf"
  /\ driver = "none"
  /\ ret = "unset"
  /\ exc = FALSE
  /\ last_height = 0
  /\ scroll_iter = 0
  /\ scroll_err = FALSE
  /\ image_urls = <<>>
  /\ extract_err = FALSE
  /\ extract_calls = 0
  /\ i = 0
  /\ downloaded_images = <<>>
  /\ disk = [p \in InputPaths |->
               IF p.kind = "image" THEN Content(MIN_DIM, MIN_DIM + p.n, p)
               ELSE Content(WindowWidth, WindowHeight, p)]
  /\ fallback_calls = 0
  /\ fallback_at = 0
  /\ fallback_out = <<>>
  /\ total_height = 0
  /\ band = 0
  /\ screenshot_paths = <<>>
  /\ persisted_at_err = -1
  /\ image_paths \in InputLists
  /\ converted_images = <<>>
  /\ conv_idx = 0
  /\ conv_failed = {}
  /\ write_err = FALSE
  /\ temps_made = {}
  /\ pdf_file = NoFile
  /\ pdf_ret = "unset"
  /\ failed_at = "none"
  /\ kept_from = <<>>
  /\ shot_offsets = <<>>
  /\ page_url = <<>>
  /\ image_data = <<>>
  /\ scan_idx = 0
  /\ normalized = <<>>

NextAssemble == CreatePdfEmpty \/ CreatePdfConvert \/ CreatePdfWrite

SpecAssemble == InitAssemble /\ [][NextAssemble]_vars

\* ------------------- the processing of image_data (lines 200-225) on its own
InitExtract ==
  /\ pc = "scan"
  /\ driver = "open"
  /\ ret = "unset"
  /\ exc = FALSE
  /\ last_height = 0
  /\ scroll_iter = 0
  /\ scroll_err = FALSE
  /\ image_urls = <<>>
  /\ extract_err = FALSE
  /\ extract_calls = 0
  /\ i = 0
  /\ downloaded_images = <<>>
  /\ disk = <<>>
  /\ fallback_calls = 0
  /\ fallback_at = 0
  /\ fallback_out = <<>>
  /\ total_height = 0
  /\ band = 0
  /\ screenshot_paths = <<>>
  /\ persisted_at_err = -1
  /\ image_paths = <<>>
  /\ converted_images = <<>>
  /\ conv_idx = 0
  /\ conv_failed = {}
  /\ write_err = FALSE
  /\ temps_made = {}
  /\ pdf_file = NoFile
  /\ pdf_ret = "unset"
  /\ failed_at = "none"
  /\ kept_from = <<>>
  /\ shot_offsets = <<>>
  /\ page_url \in PageUrls
  /\ image_data \in RawLists
  /\ scan_idx = 0
  /\ normalized = <<>>

NextExtract == ScanEntry \/ ScanReturn

SpecExtract == InitExtract /\ [][NextExtract]_vars

\* ------------------------------------------------------------------ claims
Ended == pc \in {"done", "raised"}

\* C1: when run() has ended, by returning its result or by raising, a session
\* that was opened is closed: the session is never left open.
C1_SessionClosedOnExit == Ended => driver # "open"

\* an exception left the run during the screenshot fallback and the session was closed
C1_Witness == pc = "raised" /\ driver = "closed" /\ fallback_calls = 1 /\ fallback_out = <<>>

\* C2: a run whose extraction raised does not return before the screenshot
\* fallback was invoked.
C2_ExtractErrorReachesFallback == (pc = "done" /\ extract_err) => fallback_calls >= 1

\* download_images has returned to run()
DownloadReturned == pc \in {"run_check", "create_pdf", "pdf_returned"} \/ ret # "unset"
\* no candidate was persisted as image_NNN.jpg
NoneFetched == \A p \in DOMAIN disk : p.kind # "image"

\* C3: when download_images has returned for a non-empty candidate list of which
\* every candidate was skipped, the fallback was invoked once, after the last
\* candidate, its output is the list run() holds as image_paths, and a run that
\* returned with a non-empty fallback output has called create_pdf.
C3_AllSkippedFallback ==
  (image_urls # <<>> /\ DownloadReturned /\ NoneFetched) =>
    /\ fallback_calls = 1
    /\ fallback_at = Len(image_urls)
    /\ image_paths = fallback_out
    /\ (fallback_out # <<>> /\ pc = "done" => pdf_ret # "unset")

\* three candidates were skipped, two slices were captured and create_pdf got them
C3_Witness ==
  /\ pc = "create_pdf"
  /\ Len(image_urls) = MaxUrls
  /\ NoneFetched
  /\ Len(fallback_out) = MaxBands
  /\ image_paths = fallback_out

\* C4: after create_pdf returned, none of the transient copies it wrote exists.
C4_NoTempAfterAssemble == pc = "pdf_returned" => \A t \in temps_made : ~Exists(t)

\* C5: when run() returned, either it returned the path and the file is a
\* complete document of at least one page, or it returned None and there is no
\* file at pdf_path.
C5_DocumentOrNothing ==
  pc = "done" =>
    \/ ret = "pdf" /\ pdf_file.complete /\ Len(pdf_file.pages) >= 1
    \/ ret = "null" /\ ~pdf_file.exists

\* C6: create_pdf on a list of N images, with no conversion and no write
\* raising, returns None exactly when N = 0, and for N >= 1 returns the path of
\* a complete document of N pages whose page k is input image k.
C6_AssemblyTotality ==
  (pc = "pdf_returned" /\ conv_failed = {} /\ ~write_err) =>
    /\ pdf_ret = "null" <=> image_paths = <<>>
    /\ image_paths # <<>> =>
         /\ pdf_ret = "pdf"
         /\ pdf_file.complete
         /\ Len(pdf_file.pages) = Len(image_paths)
         /\ \A k \in DOMAIN image_paths :
              /\ pdf_file.pages[k].of = image_paths[k]
              /\ pdf_file.pages[k] = disk[image_paths[k]]

\* a document was made of a list that starts with two different images
C6_Witness ==
  /\ pc = "pdf_returned"
  /\ pdf_ret = "pdf"
  /\ conv_failed = {}
  /\ Len(image_paths) = MaxInputs
  /\ image_paths[1] # image_paths[2]

\* C7: when the conversion of some image of the list raised, create_pdf returns None.
C7_ConversionErrorReturnsNull ==
  (pc = "pdf_returned" /\ conv_failed # {}) => pdf_ret = "null"

C9_ScrollErrorAborts == scroll_err => extract_calls = 0

\* C10: when the capture raised after k >= 1 slices were persisted, it returns
\* those k slices in band order, and the run has images to go on with.
C10_PartialSlicesReturned ==
  persisted_at_err >= 1 =>
    /\ fallback_out = screenshot_paths
    /\ Len(fallback_out) = persisted_at_err

\* the entries of image_data processed so far that are not inline (data:) urls
Scanned == {k \in 1..scan_idx : ~IsInline(image_data[k])}
\* the first processed entry whose normalized url is u
FirstPos(u) ==
  CHOOSE k \in Scanned :
    /\ Normalize(page_url, image_data[k]) = u
    /\ \A j \in Scanned : j < k => Normalize(page_url, image_data[j]) # u

\* C11: image_urls holds the normalized url of every non-inline entry processed,
\* each once, in the order of the first entries that gave them.
C11_DedupFirstOccurrence ==
  /\ \A a, b \in DOMAIN image_urls : a # b => image_urls[a] # image_urls[b]
  /\ Range(image_urls) = {Normalize(page_url, image_data[k]) : k \in Scanned}
  /\ \A a, b \in DOMAIN image_urls : a < b => FirstPos(image_urls[a]) < FirstPos(image_urls[b])

\* three entries, the first and the third written differently but the same url
\* once normalized, another url between them: two urls are returned
C11_Witness ==
  /\ pc = "scanned"
  /\ Len(image_data) = 3
  /\ image_data[1] # image_data[3]
  /\ normalized[1] = normalized[3]
  /\ normalized[2] # <<>>
  /\ normalized[2] # normalized[1]
  /\ Len(image_urls) = 2

\* C12: in the list the fetch loop builds, the k-th image comes from candidate
\* kept_from[k], a candidate already attempted, and kept_from is strictly
\* increasing: the order of the candidates is kept and none gives two images.
C12_OrderPreserved ==
  fallback_calls = 0 =>
    /\ Len(kept_from) = Len(downloaded_images)
    /\ \A a \in DOMAIN kept_from : kept_from[a] \in 1..i
    /\ \A a, b \in DOMAIN kept_from : a < b => kept_from[a] < kept_from[b]

\* the first and the last of three candidates were kept, the second skipped
C12_Witness == pc = "run_check" /\ Len(image_urls) = 3 /\ kept_from = <<1, 3>>

\* C13: an entry that starts with http:// or https:// is left as it is, and the
\* normalization applied to the normalized url of any entry gives that url again.
C13_NormalizeIdempotent ==
  \A k \in Scanned :
    /\ IsAbsolute(image_data[k]) => normalized[k] = image_data[k]
    /\ Normalize(page_url, normalized[k]) = normalized[k]

\* a page-relative, a root-relative and a protocol-relative url were normalized
C13_Witness ==
  /\ scan_idx = 3
  /\ image_data[1] = <<"a">>
  /\ image_data[2] = <<"/", "a">>
  /\ image_data[3] = <<"/", "/", "h", "/", "a">>
  /\ \A k \in 1..3 : normalized[k] # image_data[k] /\ IsAbsolute(normalized[k])

\* C14: while a candidate is left, the only step of the fetch stage is the
\* attempt of the next candidate, whatever its outcome: i advances by one, the
\* images kept so far stay, neither the fallback nor a return happens; and when
\* download_images has returned for a non-empty list, every candidate was attempted.
C14_EachCandidateOnce ==
  /\ []((image_urls # <<>> /\ DownloadReturned) => i = Len(image_urls))
  /\ [][(pc = "download" /\ i < Len(image_urls)) =>
          \/ pc' = "finally" /\ exc'
          \/ /\ pc' = "download"
             /\ i' = i + 1
             /\ fallback_calls' = fallback_calls
             /\ Len(downloaded_images') \in {Len(downloaded_images), Len(downloaded_images) + 1}
             /\ SubSeq(downloaded_images', 1, Len(downloaded_images)) = downloaded_images]_vars

\* the first candidate was skipped, the second kept, the third skipped
C14_Witness ==
  /\ pc = "download"
  /\ Len(image_urls) = 3
  /\ i = 3
  /\ downloaded_images = <<ImagePath(2)>>

\* C15: the image kept for the candidate at position j is stored as
\* image_NNN.jpg with NNN = j padded to three digits, and no two kept images
\* have the same file name.
C15_FileIndexIsPosition ==
  fallback_calls = 0 =>
    /\ \A a \in DOMAIN kept_from :
         /\ a \in DOMAIN downloaded_images
         /\ downloaded_images[a] = ImagePath(kept_from[a])
         /\ kept_from[a] < 10 =>
              FileName(downloaded_images[a]) = <<"image", "_", 0, 0, kept_from[a], ".jpg">>
    /\ \A a, b \in DOMAIN downloaded_images :
         a # b => FileName(downloaded_images[a]) # FileName(downloaded_images[b])

\* the first candidate was skipped: the images kept are image_002 and image_003
C15_Witness ==
  /\ pc = "create_pdf"
  /\ kept_from = <<2, 3>>
  /\ image_paths = <<ImagePath(2), ImagePath(3)>>

\* C16: the exhaustion loop runs at most ScrollCap iterations; an iteration
\* that raises nothing either goes on, and then the height it read differs from
\* the one before, or ends the loop for the sweep, and then the height was the
\* same or it was the iteration number ScrollCap.
C16_ExhaustionBounded ==
  /\ [](scroll_iter <= ScrollCap /\ (pc = "scroll_loop" => scroll_iter < ScrollCap))
  /\ [][(pc = "scroll_loop" /\ ~scroll_err' /\ ~exc') =>
          /\ scroll_iter' = scroll_iter + 1
          /\ \/ pc' = "scroll_loop" /\ last_height' # last_height
             \/ /\ pc' = "scroll_sweep"
                /\ last_height' = last_height \/ scroll_iter' = ScrollCap]_vars

\* the height changed in every iteration and the loop ended at the cap
C16_Witness == pc = "scroll_sweep" /\ scroll_iter = ScrollCap

\* C17: the fallback is called at most once, only after the last candidate and
\* with no fetched image; when an image was fetched no screenshot exists and
\* the list run() holds has fetched images only.
C17_FallbackOnlyWhenEmpty ==
  /\ fallback_calls <= 1
  /\ fallback_calls = 1 => NoneFetched /\ kept_from = <<>> /\ fallback_at = Len(image_urls)
  /\ ~NoneFetched =>
       /\ fallback_calls = 0
       /\ \A p \in DOMAIN disk : p.kind # "screenshot"
       /\ \A k \in DOMAIN image_paths : image_paths[k].kind = "image"

\* two images were fetched and go to create_pdf, the fallback was not called
C17_Witness ==
  /\ pc = "create_pdf"
  /\ fallback_calls = 0
  /\ Len(image_paths) = 2
  /\ ~NoneFetched

Ceil(a, b) == (a + b - 1) \div b

\* C18: a capture that returned without an error for a container of height
\* H > 0 returns ceil(H / viewport_height) slices; slice b was taken at offset
\* viewport_height * b and is the file screenshot_b, in the order of b.
C18_SlicesPerBand ==
  (fallback_calls = 1 /\ DownloadReturned /\ persisted_at_err = -1 /\ total_height > 0) =>
    /\ Len(fallback_out) = Ceil(total_height, viewport_height)
    /\ Len(shot_offsets) = Len(fallback_out)
    /\ \A b \in 0..(Len(fallback_out) - 1) :
         /\ shot_offsets[b + 1] = viewport_height * b
         /\ fallback_out[b + 1] = ScreenshotPath(b)
         /\ Exists(ScreenshotPath(b))

\* a container one pixel higher than a band gives two slices
C18_Witness ==
  /\ pc = "run_check"
  /\ persisted_at_err = -1
  /\ total_height = viewport_height + 1
  /\ Len(fallback_out) = 2

UsesBrowser == {"load_article", "scroll_start", "scroll_loop", "scroll_sweep", "extract",
                "capture", "capture_loop"}

\* C19: at every step that uses the browser the session is open; the session
\* is not open before setup nor after the run ended; and once the setup or the
\* load has reported failure nothing was extracted, fetched, captured or
\* assembled and the run returns None.
C19_BrowserUseAndSetupFailure ==
  /\ pc \in UsesBrowser => driver = "open"
  /\ driver = "none" => pc \in {"run", "done"}
  /\ driver = "closed" => Ended
  /\ failed_at # "none" =>
       /\ pc \in {"finally", "done"}
       /\ ret = "null"
       /\ extract_calls = 0
       /\ i = 0
       /\ fallback_calls = 0
       /\ conv_idx = 0
       /\ pdf_ret = "unset"
       /\ disk = <<>>
       /\ ~pdf_file.exists

\* the load failed: the run returned None with the session closed
C19_Witness == pc = "done" /\ failed_at = "load" /\ driver = "closed" /\ ret = "null"

\* C20: every file of the list given to create_pdf exists with its own
\* content during and after the call, and no transient copy was written to the
\* path of a file of the list.
C20_InputsUntouched ==
  \A k \in DOMAIN image_paths :
    /\ Exists(image_paths[k])
    /\ disk[image_paths[k]].of = image_paths[k]
    /\ image_paths[k] \notin temps_made
    /\ TempPath(image_paths[k]) # image_paths[k]

\* create_pdf failed after it wrote two copies; the two images are still there
C20_Witness ==
  /\ pc = "pdf_returned"
  /\ pdf_ret = "null"
  /\ Len(image_paths) = 2
  /\ Cardinality(temps_made) = 2

====
